---- MODULE Spec2Model ----
(***************************************************************************)
(* Model of the Dex liquidity pool contract (src/dex/lib.rs).              *)
(*                                                                         *)
(* The contract's storage is modelled field by field.  Mappings are        *)
(* functions whose DOMAIN is the set of keys that have an entry, so that   *)
(* "no entry" and "entry holding 0" stay distinct, as they are for         *)
(* entry().and_modify() in withdraw.  Every message is one action; the     *)
(* variable last records the call just made (message, caller, arguments,   *)
(* result), so that properties can speak about return values.              *)
(*                                                                         *)
(* Balance is u128 in the source.  TLC's own integers are 32 bits wide, so  *)
(* a * b / c is computed by MulDiv, which yields floor(a * b / c) without  *)
(* forming the product.  Token amounts are counted in units of 2^scale:    *)
(* under Spec the unit is 1 and every value stays far below 2^128; under   *)
(* WideSpec the unit is 2^UnitBits, which brings the pool totals whose     *)
(* product passes 2^128 within reach.  Whether an overflowing              *)
(* multiplication panics or wraps depends on the build (overflow-checks),  *)
(* held in overflowChecks.                                                 *)
(*                                                                         *)
(* The CarbonToken ledger (src/carbon_token/lib.rs) is a second contract   *)
(* with its own storage and its own specification, TokenSpec.              *)
(***************************************************************************)
EXTENDS Integers, Sequences, FiniteSets

\* ---------------------------------------------------------------- bounds
\* Callers.
Accounts == {"A", "B"}
\* Cap on the number of faucet calls.
MaxFaucets == 2
\* Cap on the number of successful provide and withdraw calls.
MaxMoves == 3
\* Cap on the total amount of each token the faucet hands out.
MaxSupply == 200000010
\* Shares stay at or below MaxShares; a call whose share arithmetic would
\* leave this range is outside the modelled runs.
MaxShares == 250000000
\* Under WideSpec token amounts are multiples of 2^UnitBits.
UnitBits == 60
\* Cap on CarbonToken.total_supply.
MaxTokenSupply == 3
\* Cap on the number of approve calls.
MaxApprovals == 1

\* ------------------------------------------------------------- constants
PRECISION == 1000000
\* Width of Balance (u128).
BalanceBits == 128

VARIABLES
    totalShares,    \* Dex.totalShares
    totalToken1,    \* Dex.totalToken1
    totalToken2,    \* Dex.totalToken2
    shares,         \* Dex.shares
    token1Balance,  \* Dex.token1Balance
    token2Balance,  \* Dex.token2Balance
    fees,           \* Dex.fees
    minted1,        \* total token1 credited by faucet so far
    minted2,        \* total token2 credited by faucet so far
    faucets,        \* number of faucet calls made so far
    moves,          \* number of successful provide and withdraw calls so far
    last,           \* the call just made and its result
    scale,          \* token amounts are counted in units of 2^scale
    overflowChecks, \* the build panics on integer overflow (else it wraps)
    total_supply,   \* CarbonToken.total_supply
    balances,       \* CarbonToken.balances
    allowances,     \* CarbonToken.allowances
    approvals       \* number of approve calls made so far

storage == <<totalShares, totalToken1, totalToken2, shares,
             token1Balance, token2Balance, fees>>
\* The build and the unit of the Dex.
build == <<scale, overflowChecks>>
\* The Dex and what the model records about its run.
dexVars == <<storage, minted1, minted2, faucets, moves, build>>
\* The CarbonToken ledger and what the model records about its run.
tokenVars == <<total_supply, balances, allowances, approvals>>
vars == <<totalShares, totalToken1, totalToken2, shares,
          token1Balance, token2Balance, fees, minted1, minted2, faucets, moves, last,
          scale, overflowChecks, total_supply, balances, allowances, approvals>>

\* ------------------------------------------------------------ arithmetic
Min(a, b) == IF a <= b THEN a ELSE b

\* <<q, r>> with a * b = q * c + r and 0 <= r < c, by the octal expansion of b
\* (one digit d of b per step: a * (8 * x + d) = 8 * (a * x) + d * a).  The
\* quotient is clamped at MaxShares + 1: any larger one is out of range.
\* No intermediate value exceeds 8 * c or 8 * (MaxShares + 1).
RECURSIVE MulDivQR(_, _, _)
MulDivQR(a, b, c) ==
    IF b <= 0 THEN <<0, 0>>
    ELSE LET h  == MulDivQR(a, b \div 8, c)
             d  == b % 8
             r8 == 8 * h[2]
             ra == d * (a % c)
             rs == (r8 % c) + (ra % c)
             q8 == Min(8 * h[1] + (r8 \div c) + (ra \div c) + (rs \div c),
                       MaxShares + 1)
         IN <<Min(q8 + d * (a \div c), MaxShares + 1), rs % c>>

\* floor(a * b / c) as the source's `a * b / c` on unsigned integers, c > 0:
\* directly where the product fits TLC's integers, else by MulDivQR.
MulDiv(a, b, c) ==
    IF a <= 0 \/ b <= 0 THEN 0
    ELSE IF a <= 2147483647 \div b THEN Min((a * b) \div c, MaxShares + 1)
    ELSE MulDivQR(a, b, c)[1]

\* ---------------------------------------------------------------- mappings
\* *map.get(&key).unwrap_or(&0)
Get(map, key) == IF key \in DOMAIN map THEN map[key] ELSE 0

\* map.insert(key, value)
Insert(map, key, value) ==
    [k \in DOMAIN map \cup {key} |-> IF k = key THEN value ELSE map[k]]

\* Mutant of and_modify: the closure's update is lost.
and_modify_dropped(map, key, delta) == map

\* map.entry(key).and_modify(|val| *val += delta): nothing without an entry.
and_modify(map, key, delta) ==
    IF key \in DOMAIN map THEN [map EXCEPT ![key] = @ + delta] ELSE map

\* Mutant of and_modify_or_insert: the or_insert is missing.
and_modify_only(map, key, delta) ==
    IF key \in DOMAIN map THEN [map EXCEPT ![key] = @ + delta] ELSE map

\* map.entry(key).and_modify(|val| *val += delta).or_insert(delta)
and_modify_or_insert(map, key, delta) ==
    IF key \in DOMAIN map THEN [map EXCEPT ![key] = @ + delta]
    ELSE Insert(map, key, delta)

RECURSIVE SumOver(_, _)
SumOver(map, keys) ==
    IF keys = {} THEN 0
    ELSE LET k == CHOOSE x \in keys : TRUE
         IN map[k] + SumOver(map, keys \ {k})
Sum(map) == SumOver(map, DOMAIN map)

\* ------------------------------------------------------------- private fns
\* Mutant of validAmountCheck: >= in place of >.
validAmountCheck_ge(_balance, caller, _qty) ==
    LET my_balance == Get(_balance, caller)
    IN IF _qty = 0 THEN "ZeroAmount"
       ELSE IF _qty >= my_balance THEN "InsufficientAmount"
       ELSE "Ok"

\* validAmountCheck: _qty against the caller's entry in _balance.
validAmountCheck(_balance, caller, _qty) ==
    LET my_balance == Get(_balance, caller)
    IN IF _qty = 0 THEN "ZeroAmount"
       ELSE IF _qty > my_balance THEN "InsufficientAmount"
       ELSE "Ok"

RECURSIVE Pow2(_)
Pow2(n) == IF n <= 0 THEN 1 ELSE 2 * Pow2(n - 1)

\* A product of two token amounts, in units of 2^(2 * scale), fits Balance
\* when it is below 2^KBits.
KBits == BalanceBits - 2 * scale

\* totalToken1 * totalToken2 does not fit Balance.  The totals held are below
\* 2^31 units, so with KBits >= 62 the product always fits.
getKOverflows ==
    IF totalToken1 = 0 \/ totalToken2 = 0 \/ KBits >= 62 THEN FALSE
    ELSE totalToken1 > (Pow2(KBits) - 1) \div totalToken2

\* totalToken1 * totalToken2 as u128 multiplication yields it when it does
\* not panic: the product modulo 2^BalanceBits, in units of 2^(2 * scale).
\* A product that fits is exact; only its being zero is ever observed, and
\* one beyond MaxShares is reported as MaxShares + 1.
getK ==
    IF totalToken1 = 0 \/ totalToken2 = 0 THEN 0
    ELSE IF getKOverflows
         THEN ((totalToken1 % Pow2(KBits)) * (totalToken2 % Pow2(KBits))) % Pow2(KBits)
    ELSE IF totalToken1 <= MaxShares \div totalToken2
         THEN totalToken1 * totalToken2
         ELSE MaxShares + 1

\* Mutant of activePool: the pool always counts as active.
activePool_always == "Ok"

\* activePool: the multiplication in getK panics when it overflows in a
\* build with overflow checks ("Overflow": the call traps and is reverted).
activePool ==
    IF getKOverflows /\ overflowChecks THEN "Overflow"
    ELSE IF getK = 0 THEN "ZeroLiquidity" ELSE "Ok"

\* ---------------------------------------------------------------- messages
\* Mutant of new: the fee is stored as given.
new_unclamped(_fees) == _fees

\* new(_fees): the stored fee.
new(_fees) == IF _fees >= 1000 THEN 0 ELSE _fees

\* Recorded as the caller of the messages that never read env().caller().
NoCaller == "-"

\* The record of a call.  Of a call that returned Ok: the message, the
\* caller, the arguments, the returned values and the caller's share balance
\* before the call.  Of a call that returned an error: the message and the
\* error.
Call(op, caller, args, err, ret) ==
    IF err = "Ok"
    THEN [op |-> op, caller |-> caller, args |-> args, err |-> err, ret |-> ret,
          sharesBefore |-> Get(shares, caller)]
    ELSE [op |-> op, caller |-> NoCaller, args |-> << >>, err |-> err, ret |-> << >>,
          sharesBefore |-> 0]

\* The record of a call of a message that never reads env().caller(): the
\* message, the arguments and the result.
ReadCall(op, args, err, ret) ==
    [op |-> op, caller |-> NoCaller, args |-> args, err |-> err, ret |-> ret,
     sharesBefore |-> 0]

\* getEquivalentToken1Estimate(_amountToken2): <<error, value>>.
\* A division by zero panics.
getEquivalentToken1Estimate(_amountToken2) ==
    IF activePool # "Ok" THEN <<activePool, 0>>
    ELSE IF totalToken2 = 0 THEN <<"Panic", 0>>
    ELSE <<"Ok", MulDiv(totalToken1, _amountToken2, totalToken2)>>

\* getEquivalentToken2Estimate(_amountToken1): <<error, value>>.
\* A division by zero panics.
getEquivalentToken2Estimate(_amountToken1) ==
    IF activePool # "Ok" THEN <<activePool, 0>>
    ELSE IF totalToken1 = 0 THEN <<"Panic", 0>>
    ELSE <<"Ok", MulDiv(totalToken2, _amountToken1, totalToken1)>>

\* Mutant of getWithdrawEstimate: amountToken2 computed from totalToken1.
getWithdrawEstimate_token1_twice(_share) ==
    IF activePool # "Ok" THEN <<activePool, 0, 0>>
    ELSE IF _share > totalShares THEN <<"InvalidShare", 0, 0>>
    ELSE IF totalShares = 0 THEN <<"Panic", 0, 0>>
    ELSE <<"Ok", MulDiv(_share, totalToken1, totalShares),
                 MulDiv(_share, totalToken1, totalShares)>>

\* Mutant of getWithdrawEstimate: the share is ignored, the whole pool is paid.
getWithdrawEstimate_whole_pool(_share) ==
    IF activePool # "Ok" THEN <<activePool, 0, 0>>
    ELSE IF _share > totalShares THEN <<"InvalidShare", 0, 0>>
    ELSE IF totalShares = 0 THEN <<"Panic", 0, 0>>
    ELSE <<"Ok", totalToken1, totalToken2>>

\* Mutant of getWithdrawEstimate: the amounts are rounded up.
getWithdrawEstimate_round_up(_share) ==
    IF activePool # "Ok" THEN <<activePool, 0, 0>>
    ELSE IF _share > totalShares THEN <<"InvalidShare", 0, 0>>
    ELSE IF totalShares = 0 THEN <<"Panic", 0, 0>>
    ELSE LET qr1 == MulDivQR(_share, totalToken1, totalShares)
             qr2 == MulDivQR(_share, totalToken2, totalShares)
         IN <<"Ok", qr1[1] + (IF qr1[2] > 0 THEN 1 ELSE 0),
                    qr2[1] + (IF qr2[2] > 0 THEN 1 ELSE 0)>>

\* getWithdrawEstimate(_share): <<error, amountToken1, amountToken2>>.
\* A division by zero panics.
getWithdrawEstimate(_share) ==
    IF activePool # "Ok" THEN <<activePool, 0, 0>>
    ELSE IF _share > totalShares THEN <<"InvalidShare", 0, 0>>
    ELSE IF totalShares = 0 THEN <<"Panic", 0, 0>>
    ELSE <<"Ok", MulDiv(_share, totalToken1, totalShares),
                 MulDiv(_share, totalToken2, totalShares)>>

\* Mutant of provideShare: the genesis share is the deposited token1 amount.
provideShare_genesis_by_amount(_amountToken1, _amountToken2) ==
    IF totalShares = 0 THEN <<"Ok", _amountToken1>>
    ELSE IF totalToken1 = 0 \/ totalToken2 = 0 THEN <<"Panic", 0>>
    ELSE LET share1 == MulDiv(totalShares, _amountToken1, totalToken1)
             share2 == MulDiv(totalShares, _amountToken2, totalToken2)
         IN IF share1 # share2 THEN <<"NonEquivalentValue", 0>>
            ELSE IF share1 = 0 THEN <<"ThresholdNotReached", 0>>
            ELSE <<"Ok", share1>>

\* Mutant of provideShare: share1 and share2 are not compared.
provideShare_no_ratio_check(_amountToken1, _amountToken2) ==
    IF totalShares = 0 THEN <<"Ok", 100 * PRECISION>>
    ELSE IF totalToken1 = 0 \/ totalToken2 = 0 THEN <<"Panic", 0>>
    ELSE LET share1 == MulDiv(totalShares, _amountToken1, totalToken1)
         IN IF share1 = 0 THEN <<"ThresholdNotReached", 0>>
            ELSE <<"Ok", share1>>

\* Mutant of provideShare: a share of zero is not rejected.
provideShare_no_threshold(_amountToken1, _amountToken2) ==
    IF totalShares = 0 THEN <<"Ok", 100 * PRECISION>>
    ELSE IF totalToken1 = 0 \/ totalToken2 = 0 THEN <<"Panic", 0>>
    ELSE LET share1 == MulDiv(totalShares, _amountToken1, totalToken1)
             share2 == MulDiv(totalShares, _amountToken2, totalToken2)
         IN IF share1 # share2 THEN <<"NonEquivalentValue", 0>>
            ELSE <<"Ok", share1>>

\* The share computation of provide (lines 150-166): <<error, share>>.
\* A division by zero panics.
provideShare(_amountToken1, _amountToken2) ==
    IF totalShares = 0 THEN <<"Ok", 100 * PRECISION>>
    ELSE IF totalToken1 = 0 \/ totalToken2 = 0 THEN <<"Panic", 0>>
    ELSE LET share1 == MulDiv(totalShares, _amountToken1, totalToken1)
             share2 == MulDiv(totalShares, _amountToken2, totalToken2)
         IN IF share1 # share2 THEN <<"NonEquivalentValue", 0>>
            ELSE IF share1 = 0 THEN <<"ThresholdNotReached", 0>>
            ELSE <<"Ok", share1>>

\* The outcome of provide: the two amount checks, then the share.
provideResult(caller, _amountToken1, _amountToken2) ==
    LET chk1 == validAmountCheck(token1Balance, caller, _amountToken1)
        chk2 == validAmountCheck(token2Balance, caller, _amountToken2)
    IN IF chk1 # "Ok" THEN <<chk1, 0>>
       ELSE IF chk2 # "Ok" THEN <<chk2, 0>>
       ELSE provideShare(_amountToken1, _amountToken2)

\* The share arithmetic of this call stays within the modelled range.
ProvideInRange(_amountToken1, _amountToken2) ==
    IF totalShares = 0 \/ totalToken1 = 0 \/ totalToken2 = 0 THEN TRUE
    ELSE /\ MulDiv(totalShares, _amountToken1, totalToken1) <= MaxShares - totalShares
         /\ MulDiv(totalShares, _amountToken2, totalToken2) <= MaxShares - totalShares

\* Mutant of faucet: the amounts replace the caller's balances.
faucet_overwrite(caller, _amountToken1, _amountToken2) ==
    /\ faucets < MaxFaucets
    /\ minted1 + _amountToken1 <= MaxSupply
    /\ minted2 + _amountToken2 <= MaxSupply
    /\ faucets' = faucets + 1
    /\ token1Balance' = Insert(token1Balance, caller, _amountToken1)
    /\ token2Balance' = Insert(token2Balance, caller, _amountToken2)
    /\ minted1' = minted1 + _amountToken1
    /\ minted2' = minted2 + _amountToken2
    /\ last' = Call("faucet", caller, <<_amountToken1, _amountToken2>>, "Ok", <<>>)
    /\ UNCHANGED <<totalShares, totalToken1, totalToken2, shares, fees, moves,
                   build, tokenVars>>

faucet(caller, _amountToken1, _amountToken2) ==
    /\ faucets < MaxFaucets
    /\ minted1 + _amountToken1 <= MaxSupply
    /\ minted2 + _amountToken2 <= MaxSupply
    /\ faucets' = faucets + 1
    /\ token1Balance' = Insert(token1Balance, caller,
                               Get(token1Balance, caller) + _amountToken1)
    /\ token2Balance' = Insert(token2Balance, caller,
                               Get(token2Balance, caller) + _amountToken2)
    /\ minted1' = minted1 + _amountToken1
    /\ minted2' = minted2 + _amountToken2
    /\ last' = Call("faucet", caller, <<_amountToken1, _amountToken2>>, "Ok", <<>>)
    /\ UNCHANGED <<totalShares, totalToken1, totalToken2, shares, fees, moves,
                   build, tokenVars>>

getMyHoldings(caller) ==
    /\ last' = Call("getMyHoldings", caller, <<>>, "Ok",
                    <<Get(token1Balance, caller), Get(token2Balance, caller),
                      Get(shares, caller)>>)
    /\ UNCHANGED <<storage, minted1, minted2, faucets, moves, build, tokenVars>>

getPoolDetails ==
    /\ last' = Call("getPoolDetails", NoCaller, <<>>, "Ok",
                    <<totalToken1, totalToken2, totalShares, fees>>)
    /\ UNCHANGED <<storage, minted1, minted2, faucets, moves, build, tokenVars>>

GetEquivalentToken1Estimate(_amountToken2) ==
    LET r == getEquivalentToken1Estimate(_amountToken2)
    IN /\ r[2] <= MaxShares
       /\ last' = ReadCall("getEquivalentToken1Estimate", <<_amountToken2>>,
                           r[1], IF r[1] = "Ok" THEN <<r[2]>> ELSE <<>>)
       /\ UNCHANGED <<storage, minted1, minted2, faucets, moves, build, tokenVars>>

GetEquivalentToken2Estimate(_amountToken1) ==
    LET r == getEquivalentToken2Estimate(_amountToken1)
    IN /\ r[2] <= MaxShares
       /\ last' = ReadCall("getEquivalentToken2Estimate", <<_amountToken1>>,
                           r[1], IF r[1] = "Ok" THEN <<r[2]>> ELSE <<>>)
       /\ UNCHANGED <<storage, minted1, minted2, faucets, moves, build, tokenVars>>

\* Mutant of GetWithdrawEstimate: the estimate also takes the amounts out of
\* the pool totals.
GetWithdrawEstimate_commits(_share) ==
    LET r == getWithdrawEstimate(_share)
    IN /\ last' = ReadCall("getWithdrawEstimate", <<_share>>,
                           r[1], IF r[1] = "Ok" THEN <<r[2], r[3]>> ELSE <<>>)
       /\ totalToken1' = totalToken1 - r[2]
       /\ totalToken2' = totalToken2 - r[3]
       /\ UNCHANGED <<totalShares, shares, token1Balance, token2Balance, fees,
                      minted1, minted2, faucets, moves, build, tokenVars>>

GetWithdrawEstimate(_share) ==
    LET r == getWithdrawEstimate(_share)
    IN /\ last' = ReadCall("getWithdrawEstimate", <<_share>>,
                           r[1], IF r[1] = "Ok" THEN <<r[2], r[3]>> ELSE <<>>)
       /\ UNCHANGED <<storage, minted1, minted2, faucets, moves, build, tokenVars>>

\* Mutant of provide: the caller's balances are debited before the share
\* is computed, so a rejected deposit still takes the tokens.
provide_debit_before_check(caller, _amountToken1, _amountToken2) ==
    LET r == provideResult(caller, _amountToken1, _amountToken2)
        share == r[2]
        valid == r[1] \notin {"ZeroAmount", "InsufficientAmount"}
    IN /\ IF valid THEN ProvideInRange(_amountToken1, _amountToken2) ELSE TRUE
       /\ IF valid
          THEN /\ token1Balance' = Insert(token1Balance, caller,
                                          token1Balance[caller] - _amountToken1)
               /\ token2Balance' = Insert(token2Balance, caller,
                                          token2Balance[caller] - _amountToken2)
          ELSE UNCHANGED <<token1Balance, token2Balance>>
       /\ IF r[1] = "Ok"
          THEN /\ totalToken1' = totalToken1 + _amountToken1
               /\ totalToken2' = totalToken2 + _amountToken2
               /\ totalShares' = totalShares + share
               /\ shares' = and_modify_or_insert(shares, caller, share)
               /\ moves < MaxMoves
               /\ moves' = moves + 1
          ELSE UNCHANGED <<totalToken1, totalToken2, totalShares, shares, moves>>
       /\ last' = Call("provide", caller, <<_amountToken1, _amountToken2>>,
                       r[1], IF r[1] = "Ok" THEN <<share>> ELSE <<>>)
       /\ UNCHANGED <<fees, minted1, minted2, faucets, build, tokenVars>>

\* Mutant of provide: the caller's token1 balance is not debited.
provide_no_debit(caller, _amountToken1, _amountToken2) ==
    LET r == provideResult(caller, _amountToken1, _amountToken2)
        share == r[2]
    IN /\ IF r[1] \in {"ZeroAmount", "InsufficientAmount"} THEN TRUE
          ELSE ProvideInRange(_amountToken1, _amountToken2)
       /\ IF r[1] = "Ok"
          THEN /\ token2Balance' = Insert(token2Balance, caller,
                                          token2Balance[caller] - _amountToken2)
               /\ totalToken1' = totalToken1 + _amountToken1
               /\ totalToken2' = totalToken2 + _amountToken2
               /\ totalShares' = totalShares + share
               /\ shares' = and_modify_or_insert(shares, caller, share)
               /\ moves < MaxMoves
               /\ moves' = moves + 1
               /\ UNCHANGED <<fees, token1Balance>>
          ELSE UNCHANGED <<storage, moves>>
       /\ last' = Call("provide", caller, <<_amountToken1, _amountToken2>>,
                       r[1], IF r[1] = "Ok" THEN <<share>> ELSE <<>>)
       /\ UNCHANGED <<minted1, minted2, faucets, build, tokenVars>>

provide(caller, _amountToken1, _amountToken2) ==
    LET r == provideResult(caller, _amountToken1, _amountToken2)
        share == r[2]
    IN /\ IF r[1] \in {"ZeroAmount", "InsufficientAmount"} THEN TRUE
          ELSE ProvideInRange(_amountToken1, _amountToken2)
       /\ IF r[1] = "Ok"
          THEN /\ token1Balance' = Insert(token1Balance, caller,
                                          token1Balance[caller] - _amountToken1)
               /\ token2Balance' = Insert(token2Balance, caller,
                                          token2Balance[caller] - _amountToken2)
               /\ totalToken1' = totalToken1 + _amountToken1
               /\ totalToken2' = totalToken2 + _amountToken2
               /\ totalShares' = totalShares + share
               /\ shares' = and_modify_or_insert(shares, caller, share)
               /\ moves < MaxMoves
               /\ moves' = moves + 1
               /\ UNCHANGED fees
          ELSE UNCHANGED <<storage, moves>>
       /\ last' = Call("provide", caller, <<_amountToken1, _amountToken2>>,
                       r[1], IF r[1] = "Ok" THEN <<share>> ELSE <<>>)
       /\ UNCHANGED <<minted1, minted2, faucets, build, tokenVars>>

\* Mutant of withdrawResult: the pool is examined before the caller's shares.
withdrawResult_pool_first(caller, _share) ==
    LET est == getWithdrawEstimate(_share)
        chk == validAmountCheck(shares, caller, _share)
    IN IF est[1] # "Ok" THEN est
       ELSE IF chk # "Ok" THEN <<chk, 0, 0>> ELSE est

\* The outcome of withdraw (lines 202-204): the share check, then the
\* estimate: <<error, amountToken1, amountToken2>>.
withdrawResult(caller, _share) ==
    LET chk == validAmountCheck(shares, caller, _share)
    IN IF chk # "Ok" THEN <<chk, 0, 0>> ELSE getWithdrawEstimate(_share)

withdraw(caller, _share) ==
    LET est == withdrawResult(caller, _share)
        amountToken1 == est[2]
        amountToken2 == est[3]
    IN /\ IF est[1] = "Ok"
          THEN /\ shares' = and_modify(shares, caller, 0 - _share)
               /\ totalShares' = totalShares - _share
               /\ totalToken1' = totalToken1 - amountToken1
               /\ totalToken2' = totalToken2 - amountToken2
               /\ token1Balance' = and_modify(token1Balance, caller, amountToken1)
               /\ token2Balance' = and_modify(token2Balance, caller, amountToken2)
               /\ moves < MaxMoves
               /\ moves' = moves + 1
               /\ UNCHANGED fees
          ELSE UNCHANGED <<storage, moves>>
       /\ last' = Call("withdraw", caller, <<_share>>, est[1],
                       IF est[1] = "Ok" THEN <<amountToken1, amountToken2>> ELSE <<>>)
       /\ UNCHANGED <<minted1, minted2, faucets, build, tokenVars>>

\* ------------------------------------------------------------ CarbonToken
\* self.balances.get(owner).unwrap_or_default()
balance_of(owner) == Get(balances, owner)

\* self.allowances.get((owner, spender)).unwrap_or_default()
allowance(owner, spender) == Get(allowances, <<owner, spender>>)

\* The record of a CarbonToken call: a failed call records the message and
\* the error only.
TokenCall(op, caller, args, err) ==
    IF err = "Ok"
    THEN [op |-> op, caller |-> caller, args |-> args, err |-> err, ret |-> << >>,
          sharesBefore |-> 0]
    ELSE [op |-> op, caller |-> NoCaller, args |-> << >>, err |-> err, ret |-> << >>,
          sharesBefore |-> 0]

\* The record of a CarbonToken accessor call and the value it returned.
TokenRead(op, args, value) ==
    [op |-> op, caller |-> NoCaller, args |-> args, err |-> "Ok", ret |-> <<value>>,
     sharesBefore |-> 0]

\* CarbonToken::new(), called by caller: the storage it constructs.
CarbonToken_new(caller) ==
    /\ total_supply = 0
    /\ balances = Insert(<< >>, caller, 0)
    /\ allowances = << >>

\* transfer_from_to(from, to, value): <<error, the balances it leaves>>.
\* The balance of to is read after the debit of from has been written.
transfer_from_to(from, to, value) ==
    LET from_balance == balance_of(from)
    IN IF from_balance < value THEN <<"InsufficientBalance", balances>>
       ELSE LET debited    == Insert(balances, from, from_balance - value)
                to_balance == Get(debited, to)
            IN <<"Ok", Insert(debited, to, to_balance + value)>>

\* Mutant of transfer_fromResult: the allowance is checked but not reduced.
transfer_fromResult_keeps_allowance(caller, from, to, value) ==
    IF allowance(from, caller) < value
    THEN <<"InsufficientAllowance", balances, allowances>>
    ELSE LET r == transfer_from_to(from, to, value)
         IN <<r[1], r[2], allowances>>

\* The outcome of transfer_from(from, to, value) called by caller:
\* <<error, the balances it leaves, the allowances it leaves>>.
transfer_fromResult(caller, from, to, value) ==
    LET allowance_ == allowance(from, caller)
    IN IF allowance_ < value THEN <<"InsufficientAllowance", balances, allowances>>
       ELSE LET r == transfer_from_to(from, to, value)
            IN IF r[1] # "Ok" THEN <<r[1], balances, allowances>>
               ELSE <<"Ok", r[2],
                      Insert(allowances, <<from, caller>>, allowance_ - value)>>

transfer(caller, to, value) ==
    LET r == transfer_from_to(caller, to, value)
    IN /\ balances' = r[2]
       /\ last' = TokenCall("transfer", caller, <<to, value>>, r[1])
       /\ UNCHANGED <<total_supply, allowances, approvals, dexVars>>

transfer_from(caller, from, to, value) ==
    LET r == transfer_fromResult(caller, from, to, value)
    IN /\ balances' = r[2]
       /\ allowances' = r[3]
       /\ last' = TokenCall("transfer_from", caller, <<from, to, value>>, r[1])
       /\ UNCHANGED <<total_supply, approvals, dexVars>>

approve(caller, spender, value) ==
    /\ approvals < MaxApprovals
    /\ approvals' = approvals + 1
    /\ allowances' = Insert(allowances, <<caller, spender>>, value)
    /\ last' = TokenCall("approve", caller, <<spender, value>>, "Ok")
    /\ UNCHANGED <<total_supply, balances, dexVars>>

mint(caller, amount) ==
    /\ total_supply + amount <= MaxTokenSupply
    /\ total_supply' = total_supply + amount
    /\ balances' = Insert(balances, caller, balance_of(caller) + amount)
    /\ last' = TokenCall("mint", caller, <<amount>>, "Ok")
    /\ UNCHANGED <<allowances, approvals, dexVars>>

burn(caller, amount) ==
    LET err == IF balance_of(caller) < amount \/ total_supply < amount
               THEN "InsufficientBalance" ELSE "Ok"
    IN /\ IF err = "Ok"
          THEN /\ total_supply' = total_supply - amount
               /\ balances' = Insert(balances, caller, balance_of(caller) - amount)
          ELSE UNCHANGED <<total_supply, balances>>
       /\ last' = TokenCall("burn", caller, <<amount>>, err)
       /\ UNCHANGED <<allowances, approvals, dexVars>>

\* The accessors total_supply(), balance_of(owner), allowance(owner, spender).
TotalSupply ==
    /\ last' = TokenRead("total_supply", << >>, total_supply)
    /\ UNCHANGED <<tokenVars, dexVars>>

BalanceOf(owner) ==
    /\ last' = TokenRead("balance_of", <<owner>>, balance_of(owner))
    /\ UNCHANGED <<tokenVars, dexVars>>

Allowance(owner, spender) ==
    /\ last' = TokenRead("allowance", <<owner, spender>>, allowance(owner, spender))
    /\ UNCHANGED <<tokenVars, dexVars>>

\* ----------------------------------------------------------------- inputs
FeeInputs == {999, 1000, 2000}
\* Token amounts passed to provide: zero, small ones, and one that exceeds
\* the genesis share count 100 * PRECISION.
Amounts == {0, 1, 2, 3, 200000000}
\* Amount pairs passed to faucet.
FaucetInputs == {<<3, 3>>, <<200000000, 200000000>>}
\* Share amounts a caller passes to withdraw: zero, a fixed lot, the
\* caller's whole balance, and amounts beyond it.
ShareInputs(caller) ==
    {0, 50000000, Get(shares, caller), Get(shares, caller) + 1, totalShares + 1}
\* Arguments of the read-only estimates.
EstimateShares == {50000000, totalShares + 1}
EstimateAmounts == {2}
\* Callers and counterparties of the CarbonToken ledger.
TokenAccounts == {"A", "B"}
\* Values passed to transfer, transfer_from, mint and burn.
TokenValues == {0, 1, 2}
\* Values passed to approve.
ApproveValues == {1, 3}

\* ------------------------------------------------------------ specification
\* The Dex after new(f), built with or without overflow checks, its token
\* amounts counted in units of 2^s.
DexInit(f, s, oc) ==
    /\ fees = new(f)
    /\ totalShares = 0
    /\ totalToken1 = 0
    /\ totalToken2 = 0
    /\ shares = << >>
    /\ token1Balance = << >>
    /\ token2Balance = << >>
    /\ minted1 = 0
    /\ minted2 = 0
    /\ faucets = 0
    /\ moves = 0
    /\ scale = s
    /\ overflowChecks = oc

\* The CarbonToken ledger after new() called by d.
TokenInit(d) ==
    /\ CarbonToken_new(d)
    /\ approvals = 0

Init ==
    \E f \in FeeInputs :
        /\ DexInit(f, 0, TRUE)
        /\ TokenInit("A")
        /\ last = [op |-> "new", caller |-> NoCaller, args |-> <<f>>, err |-> "Ok",
                   ret |-> << >>, sharesBefore |-> 0]

Next ==
    \/ \E c \in Accounts, p \in FaucetInputs : faucet(c, p[1], p[2])
    \/ \E c \in Accounts, a1 \in Amounts, a2 \in Amounts : provide(c, a1, a2)
    \/ \E c \in Accounts : \E s \in ShareInputs(c) : withdraw(c, s)
    \/ \E s \in EstimateShares : GetWithdrawEstimate(s)
    \/ \E a \in EstimateAmounts : GetEquivalentToken1Estimate(a)
    \/ \E a \in EstimateAmounts : GetEquivalentToken2Estimate(a)
    \/ \E c \in Accounts : getMyHoldings(c)
    \/ getPoolDetails

Spec == Init /\ [][Next]_vars

\* The Dex constructed with one fee: the fee enters no computation of the
\* pool.
PoolInit ==
    /\ DexInit(0, 0, TRUE)
    /\ TokenInit("A")
    /\ last = [op |-> "new", caller |-> NoCaller, args |-> <<0>>, err |-> "Ok",
               ret |-> << >>, sharesBefore |-> 0]

PoolSpec == PoolInit /\ [][Next]_vars

\* ---------------------------------------------------- the Dex, wide amounts
\* The amounts getWithdrawEstimate(_share) yields are whole numbers of units.
WithdrawInUnits(_share) ==
    IF totalShares = 0 THEN TRUE
    ELSE /\ MulDivQR(_share, totalToken1, totalShares)[2] = 0
         /\ MulDivQR(_share, totalToken2, totalShares)[2] = 0

WideInit ==
    \E oc \in BOOLEAN :
        /\ DexInit(0, UnitBits, oc)
        /\ TokenInit("A")
        /\ last = [op |-> "new", caller |-> NoCaller, args |-> <<0>>, err |-> "Ok",
                   ret |-> << >>, sharesBefore |-> 0]

WideNext ==
    \/ \E c \in Accounts, p \in FaucetInputs : faucet(c, p[1], p[2])
    \/ \E c \in Accounts, a1 \in Amounts, a2 \in Amounts : provide(c, a1, a2)
    \/ \E c \in Accounts : \E s \in ShareInputs(c) :
           WithdrawInUnits(s) /\ withdraw(c, s)
    \/ \E s \in EstimateShares : WithdrawInUnits(s) /\ GetWithdrawEstimate(s)
    \/ \E c \in Accounts : getMyHoldings(c)
    \/ getPoolDetails

WideSpec == WideInit /\ [][WideNext]_vars

\* ------------------------------------------------------------- CarbonToken
TokenSpecInit ==
    \E d \in TokenAccounts :
        /\ TokenInit(d)
        /\ DexInit(0, 0, TRUE)
        /\ last = [op |-> "CarbonToken::new", caller |-> d, args |-> << >>,
                   err |-> "Ok", ret |-> << >>, sharesBefore |-> 0]

TokenNext ==
    \/ \E c \in TokenAccounts, to \in TokenAccounts, v \in TokenValues :
           transfer(c, to, v)
    \/ \E c \in TokenAccounts, from \in TokenAccounts, to \in TokenAccounts,
          v \in TokenValues : transfer_from(c, from, to, v)
    \/ \E c \in TokenAccounts, s \in TokenAccounts, v \in ApproveValues :
           approve(c, s, v)
    \/ \E c \in TokenAccounts, v \in TokenValues : mint(c, v)
    \/ \E c \in TokenAccounts, v \in TokenValues : burn(c, v)
    \/ TotalSupply
    \/ \E o \in TokenAccounts : BalanceOf(o)
    \/ \E o \in TokenAccounts, s \in TokenAccounts : Allowance(o, s)

TokenSpec == TokenSpecInit /\ [][TokenNext]_vars

\* ------------------------------------------------------------------ claims
\* Helpers of the claims: the step just taken was a successful call of op.
Succeeded(op) == last.op = op /\ last.err = "Ok"
SucceededNext(op) == last'.op = op /\ last'.err = "Ok"
Holders == {k \in DOMAIN shares : shares[k] > 0}

\* C1: in every reachable state totalShares equals the sum of the share
\* balances of all accounts.
C1_TotalSharesIsSum == totalShares = Sum(shares)

\* C1 witness: a withdraw succeeded and two accounts still hold shares.
C1_Witness == Succeeded("withdraw") /\ Cardinality(Holders) = 2

\* C2: in every reachable state totalToken1 is zero exactly when
\* totalToken2 is zero.
C2_BothOrNeither == (totalToken1 = 0) <=> (totalToken2 = 0)

\* C2 witness: a partial withdraw whose floor division released nothing of
\* token1 and something of token2, the pool staying funded.
C2_Witness ==
    /\ Succeeded("withdraw")
    /\ last.ret[1] = 0
    /\ last.ret[2] > 0
    /\ totalToken1 > 0
    /\ totalToken2 > 0

\* C3: a provide or withdraw call that returns an error leaves every field
\* of the storage (pool totals, fees and all balances) as it was.
C3_ErrorsChangeNothing ==
    [][(last'.op \in {"provide", "withdraw"} /\ last'.err # "Ok")
        => storage' = storage]_vars

\* C3 witness: a provide was rejected for its ratio by a funded pool.
C3_Witness ==
    /\ last.op = "provide"
    /\ last.err = "NonEquivalentValue"
    /\ totalShares > 0

\* C4: while totalShares is zero every provide that passes amount validation
\* succeeds with a share of exactly 100 * 10^6, whatever the amounts, and the
\* provide that commits mints and returns exactly that share.
C4_GenesisShare ==
    /\ [](totalShares = 0 =>
            \A c \in Accounts, a1 \in Amounts, a2 \in Amounts :
                (/\ validAmountCheck(token1Balance, c, a1) = "Ok"
                 /\ validAmountCheck(token2Balance, c, a2) = "Ok")
                    => provideResult(c, a1, a2) = <<"Ok", 100000000>>)
    /\ [][(SucceededNext("provide") /\ totalShares = 0)
            => /\ last'.ret = <<100000000>>
               /\ totalShares' = 100000000
               /\ Get(shares', last'.caller)
                    = Get(shares, last'.caller) + 100000000]_vars

\* C4 witness: a genesis provide into a pool that was funded and fully
\* withdrawn before, with unequal amounts.
C4_Witness ==
    /\ Succeeded("provide")
    /\ moves = 3
    /\ totalShares = last.ret[1]
    /\ last.args[1] # last.args[2]

\* The two share quotients of provide's non-genesis branch.
Share1(a1) == MulDiv(totalShares, a1, totalToken1)
Share2(a2) == MulDiv(totalShares, a2, totalToken2)
\* provide(c, a1, a2) passes both amount checks and its shares are in range.
ValidDeposit(c, a1, a2) ==
    /\ totalShares > 0
    /\ totalToken1 > 0
    /\ totalToken2 > 0
    /\ a1 > 0
    /\ a2 > 0
    /\ a1 <= Get(token1Balance, c)
    /\ a2 <= Get(token2Balance, c)
    /\ ProvideInRange(a1, a2)

\* C5 as stated: with totalShares > 0 and valid amounts, provide succeeds
\* iff share1 = share2 and otherwise fails with NonEquivalentValue.
C5_Original ==
    \A c \in Accounts, a1 \in Amounts, a2 \in Amounts :
        ValidDeposit(c, a1, a2) =>
            LET err == provideResult(c, a1, a2)[1]
            IN /\ (err = "Ok") <=> (Share1(a1) = Share2(a2))
               /\ err # "Ok" => err = "NonEquivalentValue"

\* C5 as amended: with totalShares > 0 and valid amounts, provide succeeds
\* iff share1 = share2 and that share is not zero; it fails with
\* NonEquivalentValue iff share1 # share2, and with ThresholdNotReached iff
\* share1 = share2 = 0.
C5_Amended ==
    \A c \in Accounts, a1 \in Amounts, a2 \in Amounts :
        ValidDeposit(c, a1, a2) =>
            LET err == provideResult(c, a1, a2)[1]
            IN /\ (err = "Ok") <=> (Share1(a1) = Share2(a2) /\ Share1(a1) # 0)
               /\ (err = "NonEquivalentValue") <=> (Share1(a1) # Share2(a2))
               /\ (err = "ThresholdNotReached")
                    <=> (Share1(a1) = Share2(a2) /\ Share1(a1) = 0)

\* C5 witness: a provide with valid amounts was rejected because both
\* quotients were zero.
C5_Witness == last.op = "provide" /\ last.err = "ThresholdNotReached"

\* The outcome of the caller of the withdraw just made depositing exactly
\* the two amounts that withdraw returned.
Redeposit == provideResult(last.caller, last.ret[1], last.ret[2])

\* C6 as stated: after a successful withdraw, the caller's provide of the
\* returned amounts succeeds and leaves the caller with no more shares than
\* before the withdraw.
C6_Original ==
    Succeeded("withdraw") =>
        /\ Redeposit[1] = "Ok"
        /\ Get(shares, last.caller) + Redeposit[2] <= last.sharesBefore

\* C6 as amended: after a successful withdraw, the caller's provide of the
\* returned amounts either fails, with ZeroAmount exactly when a returned
\* amount is zero and else with NonEquivalentValue or ThresholdNotReached, or
\* succeeds; when it succeeds in a pool the withdraw did not empty, the caller
\* ends with no more shares than before the withdraw.
C6_Amended ==
    Succeeded("withdraw") =>
        /\ Redeposit[1] \in {"Ok", "ZeroAmount", "NonEquivalentValue",
                             "ThresholdNotReached"}
        /\ (Redeposit[1] = "ZeroAmount") <=> (last.ret[1] = 0 \/ last.ret[2] = 0)
        /\ (Redeposit[1] = "Ok" /\ totalShares > 0)
             => Get(shares, last.caller) + Redeposit[2] <= last.sharesBefore

\* C6 witness: a withdraw left the pool funded and the provide of the
\* returned amounts succeeds with a loss of shares to truncation.
C6_Witness ==
    /\ Succeeded("withdraw")
    /\ totalShares > 0
    /\ Redeposit[1] = "Ok"
    /\ Get(shares, last.caller) + Redeposit[2] < last.sharesBefore

\* Every account other than c has the same three balances before and after.
OthersUnchanged(c) ==
    \A k \in Accounts \ {c} :
        /\ Get(shares', k) = Get(shares, k)
        /\ Get(token1Balance', k) = Get(token1Balance, k)
        /\ Get(token2Balance', k) = Get(token2Balance, k)

\* C7: a successful withdraw(s) by c returns the pair getWithdrawEstimate(s)
\* yields in the pre-state, floor(s * totalToken / totalShares) per token,
\* takes s from c's shares and from totalShares, takes the returned amounts
\* from the pool totals without underflow, credits them to c, and changes no
\* other account.
C7_WithdrawCommit ==
    [][SucceededNext("withdraw") =>
        LET c  == last'.caller
            s  == last'.args[1]
            a1 == last'.ret[1]
            a2 == last'.ret[2]
        IN /\ getWithdrawEstimate(s) = <<"Ok", a1, a2>>
           /\ a1 = MulDiv(s, totalToken1, totalShares)
           /\ a2 = MulDiv(s, totalToken2, totalShares)
           /\ Get(shares', c) = Get(shares, c) - s
           /\ totalShares' = totalShares - s
           /\ totalToken1' = totalToken1 - a1
           /\ totalToken2' = totalToken2 - a2
           /\ totalShares' >= 0 /\ totalToken1' >= 0 /\ totalToken2' >= 0
           /\ Get(shares', c) >= 0
           /\ Get(token1Balance', c) = Get(token1Balance, c) + a1
           /\ Get(token2Balance', c) = Get(token2Balance, c) + a2
           /\ OthersUnchanged(c)
           /\ fees' = fees]_vars

\* C7 witness: a partial withdraw released tokens while another account
\* holds shares.
C7_Witness ==
    /\ Succeeded("withdraw")
    /\ last.ret[1] > 0
    /\ Get(shares, last.caller) > 0
    /\ Holders \ {last.caller} # {}

\* C8: a successful provide(a1, a2) by c returns a share of at least 1,
\* debits c by a1 and a2, adds a1 and a2 to the pool totals, adds the share
\* to totalShares and to c's shares, and changes no other account.
C8_ProvideCommit ==
    [][SucceededNext("provide") =>
        LET c     == last'.caller
            a1    == last'.args[1]
            a2    == last'.args[2]
            share == last'.ret[1]
        IN /\ share >= 1
           /\ Get(token1Balance', c) = Get(token1Balance, c) - a1
           /\ Get(token2Balance', c) = Get(token2Balance, c) - a2
           /\ Get(token1Balance', c) >= 0 /\ Get(token2Balance', c) >= 0
           /\ totalToken1' = totalToken1 + a1
           /\ totalToken2' = totalToken2 + a2
           /\ totalShares' = totalShares + share
           /\ Get(shares', c) = Get(shares, c) + share
           /\ OthersUnchanged(c)
           /\ fees' = fees]_vars

\* C8 witness: a second provider's deposit was accepted for exactly one
\* share, its share entry being created.
C8_Witness ==
    /\ Succeeded("provide")
    /\ last.ret = <<1>>
    /\ last.sharesBefore = 0
    /\ Holders \ {last.caller} # {}

ReadEstimates == {"getWithdrawEstimate", "getEquivalentToken1Estimate",
                  "getEquivalentToken2Estimate"}

\* C9: a withdraw of all of totalShares by their sole holder returns
\* (totalToken1, totalToken2) and empties the pool (all three totals and K
\* zero); and whenever the pool is empty every estimate fails with
\* ZeroLiquidity, for every argument, which lasts until a provide succeeds.
C9_DrainDeactivates ==
    /\ [](\A c \in Accounts :
            (totalShares > 0 /\ Get(shares, c) = totalShares)
                => /\ validAmountCheck(shares, c, totalShares) = "Ok"
                   /\ getWithdrawEstimate(totalShares)
                        = <<"Ok", totalToken1, totalToken2>>)
    /\ [][(SucceededNext("withdraw") /\ last'.args[1] = totalShares)
            => /\ last'.ret = <<totalToken1, totalToken2>>
               /\ totalToken1' = 0 /\ totalToken2' = 0 /\ totalShares' = 0
               /\ getK' = 0]_vars
    /\ [][(totalShares = 0 /\ totalShares' # 0) => SucceededNext("provide")]_vars
    /\ []((totalShares = 0 /\ last.op \in ReadEstimates)
            => last.err = "ZeroLiquidity")
    /\ [](totalShares = 0 =>
            /\ \A s \in EstimateShares \cup {0} :
                   getWithdrawEstimate(s)[1] = "ZeroLiquidity"
            /\ \A a \in Amounts :
                   /\ getEquivalentToken1Estimate(a)[1] = "ZeroLiquidity"
                   /\ getEquivalentToken2Estimate(a)[1] = "ZeroLiquidity")

\* C9, its first part as a state predicate: a caller holding all of
\* totalShares (> 0) who withdraws them is paid exactly (totalToken1,
\* totalToken2).
C9_FullWithdrawPaysTotals ==
    \A c \in Accounts :
        (totalShares > 0 /\ Get(shares, c) = totalShares)
            => withdrawResult(c, totalShares) = <<"Ok", totalToken1, totalToken2>>

\* C9 witness: after a provide and a withdraw of everything, a
\* getWithdrawEstimate call failed with ZeroLiquidity.
C9_Witness ==
    /\ last.op = "getWithdrawEstimate"
    /\ last.err = "ZeroLiquidity"
    /\ moves = 2
    /\ totalShares = 0

\* C10: in every pool state provide(a1, a2) by c fails with ZeroAmount if
\* a1 = 0, else InsufficientAmount if a1 exceeds c's token1 balance, else
\* ZeroAmount if a2 = 0, else InsufficientAmount if a2 exceeds c's token2
\* balance (an unseen caller has balance 0); only then can it return Ok,
\* NonEquivalentValue or ThresholdNotReached.
C10_ValidationOrder ==
    \A c \in Accounts, a1 \in Amounts, a2 \in Amounts :
        LET err == provideResult(c, a1, a2)[1]
            b1  == IF c \in DOMAIN token1Balance THEN token1Balance[c] ELSE 0
            b2  == IF c \in DOMAIN token2Balance THEN token2Balance[c] ELSE 0
        IN IF a1 = 0 THEN err = "ZeroAmount"
           ELSE IF a1 > b1 THEN err = "InsufficientAmount"
           ELSE IF a2 = 0 THEN err = "ZeroAmount"
           ELSE IF a2 > b2 THEN err = "InsufficientAmount"
           ELSE err \in {"Ok", "NonEquivalentValue", "ThresholdNotReached"}

\* C10 witness: a provide was rejected with InsufficientAmount by a funded
\* pool while some caller has never been seen.
C10_Witness ==
    /\ last.op = "provide"
    /\ last.err = "InsufficientAmount"
    /\ totalShares > 0
    /\ DOMAIN token1Balance # Accounts

\* C11: withdraw(s) by c fails with ZeroAmount when s = 0 and with
\* InsufficientAmount when s exceeds c's share balance, whatever the pool
\* (inactive, or s > totalShares); ZeroLiquidity and InvalidShare are returned
\* only when 0 < s <= c's share balance.
C11_ShareCheckFirst ==
    \A c \in Accounts : \A s \in ShareInputs(c) :
        LET err == withdrawResult(c, s)[1]
        IN /\ s = 0 => err = "ZeroAmount"
           /\ (s > 0 /\ s > Get(shares, c)) => err = "InsufficientAmount"
           /\ err \in {"ZeroLiquidity", "InvalidShare"}
                => (0 < s /\ s <= Get(shares, c))

\* C11 witness: a withdraw was rejected with InsufficientAmount by a pool
\* that had been funded and fully drained.
C11_Witness ==
    /\ last.op = "withdraw"
    /\ last.err = "InsufficientAmount"
    /\ getK = 0
    /\ moves = 2

\* C12 as stated: in every reachable state getK is the exact product of the
\* pool totals, without overflow, so activePool fails with ZeroLiquidity
\* exactly when a total is zero and succeeds otherwise.
C12_ExactK ==
    /\ ~getKOverflows
    /\ (activePool = "ZeroLiquidity") <=> (totalToken1 = 0 \/ totalToken2 = 0)
    /\ (activePool = "Ok") <=> (totalToken1 # 0 /\ totalToken2 # 0)

\* C13: new(f) stores f when f < 1000 and 0 otherwise, with all totals zero;
\* no step changes fees; fees stays in [0, 1000) and getPoolDetails reports
\* it.
C13_FeesFixed ==
    /\ [](last.op = "new" =>
            /\ fees = (IF last.args[1] < 1000 THEN last.args[1] ELSE 0)
            /\ totalShares = 0 /\ totalToken1 = 0 /\ totalToken2 = 0)
    /\ [][fees' = fees]_vars
    /\ [](fees >= 0 /\ fees < 1000)
    /\ [](last.op = "getPoolDetails" =>
            (last.ret[4] = fees /\ last.ret[4] >= 0 /\ last.ret[4] < 1000))

\* C13 witness: getPoolDetails reported the unclamped fee 999 after pool
\* activity.
C13_Witness ==
    /\ last.op = "getPoolDetails"
    /\ last.ret[4] = 999
    /\ moves > 0

\* C14: faucet(a1, a2) by c never fails, adds exactly a1 and a2 to c's token
\* balances (an absent balance counting as zero, the entries existing
\* afterwards), and changes neither the pool totals, the fee, any share
\* balance nor any other account's token balances.
C14_FaucetFrame ==
    [][last'.op = "faucet" =>
        LET c  == last'.caller
            a1 == last'.args[1]
            a2 == last'.args[2]
        IN /\ last'.err = "Ok"
           /\ c \in DOMAIN token1Balance' /\ c \in DOMAIN token2Balance'
           /\ token1Balance'[c] = Get(token1Balance, c) + a1
           /\ token2Balance'[c] = Get(token2Balance, c) + a2
           /\ UNCHANGED <<totalToken1, totalToken2, totalShares, fees, shares>>
           /\ \A k \in Accounts \ {c} :
                  /\ Get(token1Balance', k) = Get(token1Balance, k)
                  /\ Get(token2Balance', k) = Get(token2Balance, k)
                  /\ (k \in DOMAIN token1Balance') = (k \in DOMAIN token1Balance)
                  /\ (k \in DOMAIN token2Balance') = (k \in DOMAIN token2Balance)]_vars

\* C14 witness: a faucet call credited a caller who already held tokens,
\* while the pool was funded.
C14_Witness ==
    /\ Succeeded("faucet")
    /\ Get(token1Balance, last.caller) > last.args[1]
    /\ totalShares > 0

\* C15: a call of getWithdrawEstimate, getEquivalentToken1Estimate or
\* getEquivalentToken2Estimate, successful or failing, changes no pool or
\* account state, and a call repeated with the same argument returns the
\* same result.
C15_PureReads ==
    /\ [][last'.op \in ReadEstimates => storage' = storage]_vars
    /\ [][(last.op \in ReadEstimates /\ last'.op = last.op /\ last'.args = last.args)
            => (last'.err = last.err /\ last'.ret = last.ret)]_vars

\* C15 witness: a getWithdrawEstimate call returned non-zero amounts.
C15_Witness ==
    /\ Succeeded("getWithdrawEstimate")
    /\ last.ret[1] > 0
    /\ last.ret[2] > 0

\* C16 as stated: in an active pool, for every a2 > 0 a caller holding the
\* amounts is not rejected with NonEquivalentValue by
\* provide(getEquivalentToken1Estimate(a2), a2), nor, for every a1 > 0, by
\* provide(a1, getEquivalentToken2Estimate(a1)).
C16_EstimateIsAccepted ==
    \A c \in Accounts, a \in Amounts :
        (a > 0 /\ activePool = "Ok" /\ totalShares > 0) =>
            LET e1 == getEquivalentToken1Estimate(a)[2]
                e2 == getEquivalentToken2Estimate(a)[2]
            IN /\ (/\ e1 <= Get(token1Balance, c)
                   /\ a <= Get(token2Balance, c)
                   /\ ProvideInRange(e1, a))
                    => provideResult(c, e1, a)[1] # "NonEquivalentValue"
               /\ (/\ a <= Get(token1Balance, c)
                   /\ e2 <= Get(token2Balance, c)
                   /\ ProvideInRange(a, e2))
                    => provideResult(c, a, e2)[1] # "NonEquivalentValue"

\* The effect of a transfer_from that succeeded, from balances b and
\* allowances al to balances b2 and allowances al2.
TransferFromEffect(c, from, to, v, b, al, b2, al2) ==
    /\ Get(al2, <<from, c>>) = Get(al, <<from, c>>) - v
    /\ \A p \in (TokenAccounts \X TokenAccounts) \ {<<from, c>>} :
           Get(al2, p) = Get(al, p)
    /\ IF from = to THEN Get(b2, from) = Get(b, from)
       ELSE /\ Get(b2, from) = Get(b, from) - v
            /\ Get(b2, to) = Get(b, to) + v
    /\ \A k \in TokenAccounts \ {from, to} : Get(b2, k) = Get(b, k)

\* C17: transfer_from(from, to, value) by c fails with InsufficientAllowance
\* when allowance(from, c) < value, else with InsufficientBalance when from's
\* balance < value, leaving balances and allowances unchanged; otherwise it
\* succeeds, moves exactly value from from to to and lowers allowance(from, c)
\* by exactly value.
C17_TransferFrom ==
    /\ [](\A c \in TokenAccounts, from \in TokenAccounts, to \in TokenAccounts,
            v \in TokenValues :
            LET r == transfer_fromResult(c, from, to, v)
            IN IF allowance(from, c) < v
               THEN r = <<"InsufficientAllowance", balances, allowances>>
               ELSE IF balance_of(from) < v
               THEN r = <<"InsufficientBalance", balances, allowances>>
               ELSE /\ r[1] = "Ok"
                    /\ TransferFromEffect(c, from, to, v,
                                          balances, allowances, r[2], r[3]))
    /\ [][(last'.op = "transfer_from" /\ last'.err # "Ok")
            => /\ last'.err \in {"InsufficientAllowance", "InsufficientBalance"}
               /\ UNCHANGED <<total_supply, balances, allowances>>]_vars
    /\ [][(last'.op = "transfer_from" /\ last'.err = "Ok")
            => /\ allowance(last'.args[1], last'.caller) >= last'.args[3]
               /\ balance_of(last'.args[1]) >= last'.args[3]
               /\ TransferFromEffect(last'.caller, last'.args[1], last'.args[2],
                                     last'.args[3], balances, allowances,
                                     balances', allowances')
               /\ total_supply' = total_supply]_vars

\* C17 witness: a spender other than the owner moved a non-zero value to
\* itself and used up part of its allowance.
C17_Witness ==
    /\ last.op = "transfer_from"
    /\ last.err = "Ok"
    /\ last.caller # last.args[1]
    /\ last.args[2] # last.args[1]
    /\ last.args[3] > 0
    /\ allowance(last.args[1], last.caller) > 0

\* C18 as stated: in every reachable state withdraw returns neither
\* ZeroLiquidity nor InvalidShare: a failing withdraw fails with ZeroAmount
\* or InsufficientAmount, and every withdraw of a non-zero amount within the
\* caller's share balance succeeds.
C18_WithdrawNeverInactive ==
    \A c \in Accounts : \A s \in ShareInputs(c) :
        LET err == withdrawResult(c, s)[1]
        IN /\ err \in {"Ok", "ZeroAmount", "InsufficientAmount"}
           /\ (0 < s /\ s <= Get(shares, c)) => err = "Ok"

\* C19: in every reachable state totalShares is zero exactly when totalToken1
\* and totalToken2 are both zero, and neither provide nor getWithdrawEstimate
\* nor withdraw divides by zero, whatever their arguments.
C19_SharesIffTokens ==
    /\ (totalShares = 0) <=> (totalToken1 = 0 /\ totalToken2 = 0)
    /\ \A c \in Accounts, a1 \in Amounts, a2 \in Amounts :
           provideResult(c, a1, a2)[1] # "Panic"
    /\ \A c \in Accounts : \A s \in ShareInputs(c) \cup EstimateShares :
           /\ getWithdrawEstimate(s)[1] # "Panic"
           /\ withdrawResult(c, s)[1] # "Panic"

\* C19 witness: a deposit went through the non-genesis branch after a
\* withdraw.
C19_Witness ==
    /\ Succeeded("provide")
    /\ totalShares > last.ret[1]
    /\ moves = 3
    /\ last.ret[1] < 100000000

TokenSum1 == totalToken1 + Sum(token1Balance)
TokenSum2 == totalToken2 + Sum(token2Balance)

\* C20: per asset, the pool total plus all accounts' balances equals the
\* amount credited by faucet so far; a successful provide or withdraw leaves
\* this sum unchanged and a failed one leaves every term of it unchanged; the
\* amount credited changes in faucet only, upwards; every share holder has a
\* token1 and a token2 balance entry.
C20_TokensConserved ==
    /\ [](TokenSum1 = minted1 /\ TokenSum2 = minted2)
    /\ [](\A c \in DOMAIN shares :
            c \in DOMAIN token1Balance /\ c \in DOMAIN token2Balance)
    /\ [][(last'.op \in {"provide", "withdraw"} /\ last'.err = "Ok")
            => (TokenSum1' = TokenSum1 /\ TokenSum2' = TokenSum2)]_vars
    /\ [][(last'.op \in {"provide", "withdraw"} /\ last'.err # "Ok")
            => UNCHANGED <<totalToken1, totalToken2,
                           token1Balance, token2Balance>>]_vars
    /\ [][last'.op # "faucet"
            => (minted1' = minted1 /\ minted2' = minted2)]_vars
    /\ [][last'.op = "faucet"
            => (minted1' >= minted1 /\ minted2' >= minted2)]_vars

\* C20 witness: a withdraw credited tokens to a caller whose token1 balance
\* entry held zero.
C20_Witness ==
    /\ Succeeded("withdraw")
    /\ last.ret[1] > 0
    /\ token1Balance[last.caller] = last.ret[1]

====
